---------------------------- MODULE Spec2Model ----------------------------
(***************************************************************************)
(* A model of the HyP3 tutorial notebooks:                                 *)
(*   - the SBAS pairing loop of the time-series notebooks,                 *)
(*   - the "process new granules for search parameters" notebook,          *)
(*   - the submit / watch / find_jobs / download_files cells,              *)
(*   - the stack filter, get_common_overlap, the clip function and the     *)
(*     MintPy config of the time-series notebooks.                         *)
(* Each notebook is a sequence of cells; a cell (or one iteration of a     *)
(* loop of a cell) is one action.  The external services (ASF search,      *)
(* the HyP3 service) are the environment of the notebooks.                 *)
(***************************************************************************)
EXTENDS Integers, Sequences, FiniteSets, Bags, TLC

VARIABLES
    \* ---- time-series notebooks: SBAS pairing cell
    baseline_results,       \* the baseline stack of the reference scene
    stack,                  \* the filtered scene table (rows in table order)
    max_temporal_baseline,  \* the notebook parameter
    sbas_pairs,             \* the Python set of (reference, secondary) tuples
    sbas_pc,                \* position in the pairing cell
    ref_i,                  \* next row of stack.loc[::-1] to visit (0: none left)
    \* ---- process-new-granules notebook
    available,              \* scenes the archive holds (environment)
    hyp3_jobs,              \* jobs the HyP3 service holds, in submission order
    run,                    \* number of the current run of the notebook
    pc,                     \* position in the run
    batch_size,             \* the notebook variable
    processed_granules,     \* list built from previous_jobs
    search_results,         \* result of asf_search.search
    search_incomplete,      \* the search response of this run was incomplete
    unprocessed_granules,   \* list built from search_results
    batch_i,                \* loop variable i of the batch loop
    submit_calls,           \* calls of submit_prepared_jobs in this run
    submit_log,             \* per call of this run: the batch and its new_jobs
    raised,                 \* the exception that ended the run, or "none"
    \* ---- get_neighbors called on its own
    nb_stack,               \* the stack stack_from_product returns
    nb_depth,               \* the depth argument
    nb_result,              \* the list returned
    nb_pc,                  \* position in the call
    \* ---- time-series notebooks: submit / watch / find_jobs / download_files
    notebook,               \* which notebook runs: "gamma" or "burst"
    today,                  \* the day the clock shows (environment)
    start_of_today,         \* the notebook variable of the burst notebooks
    ts_service,             \* jobs the HyP3 service holds, in submission order
    ts_run,                 \* number of the current run of the notebook
    ts_pc,                  \* position in the run
    ts_todo,                \* elements of sbas_pairs the submit loop has not visited
    jobs,                   \* the notebook variable jobs (a Batch)
    downloaded,             \* the batch download_files was called on in this run
    \* ---- time-series notebooks: common overlap, clipping, MintPy config
    corners,                \* cornerCoordinates of the rasters of file_list
    overlap,                \* the notebook variable overlap: [ulx, uly, lrx, lry]
    ov_pc,                  \* position in the get_common_overlap call
    data_files,             \* files under data_dir when the clip function is called
    written,                \* files gdal.Translate has written
    translate_calls,        \* the calls of gdal.Translate, in order
    ext_i,                  \* position of the outer loop in files_for_mintpy
    clip_pc,                \* position in the clip and config cells
    mintpy_config           \* the mintpy.load.*File lines written to the config

sbasVars == <<baseline_results, stack, max_temporal_baseline, sbas_pairs, sbas_pc,
              ref_i>>

pngVars == <<available, hyp3_jobs, run, pc, batch_size, processed_granules,
             search_results, search_incomplete, unprocessed_granules, batch_i,
             submit_calls, submit_log, raised>>

nbVars == <<nb_stack, nb_depth, nb_result, nb_pc>>

tsVars == <<notebook, today, start_of_today, ts_service, ts_run, ts_pc, ts_todo,
            jobs, downloaded>>

mintpyVars == <<corners, overlap, ov_pc, data_files, written, translate_calls,
                ext_i, clip_pc, mintpy_config>>

vars == <<sbasVars, pngVars, nbVars, tsVars, mintpyVars>>

----------------------------------------------------------------------------
(* Generic helpers *)

Range(s) == {s[i] : i \in 1..Len(s)}

Min(a, b) == IF a <= b THEN a ELSE b

Max(a, b) == IF a >= b THEN a ELSE b

\* All subsets of S with at most n elements.
RECURSIVE SubsetsUpTo(_, _)
SubsetsUpTo(S, n) ==
    IF n = 0 THEN {{}}
    ELSE LET smaller == SubsetsUpTo(S, n - 1)
         IN  smaller \cup {T \cup {x} : T \in smaller, x \in S}

\* All sequences over S of length at most n.
SeqsUpTo(S, n) == UNION {[1..k -> S] : k \in 0..n}

----------------------------------------------------------------------------
(* SBAS pairing loop *)

\* Bounds of the synthetic scene tables.
MaxRows == 3

SceneNames == {"A", "B", "C"}

BaselineValues == {-10, 0, 10, 20}

\* max_temporal_baseline of the documented scenario.
ScenarioMax == 24

MaxTemporalBaselines == {10, ScenarioMax}

Row(n, t) == [sceneName |-> n, temporalBaseline |-> t]

Rows == {Row(n, t) : n \in SceneNames, t \in BaselineValues}

\* The scene table of the documented scenario.
ScenarioStack == <<Row("A", 0), Row("B", 10), Row("C", 20), Row("D", 50)>>

Stacks == SeqsUpTo(Rows, MaxRows) \cup {ScenarioStack}

\* set.add with a broken membership test: the element is stored again.
SetAddKeepingDuplicates(s, e) == s (+) SetToBag({e})

\* Python set.add: the element is stored once however often it is added.
SetAdd(s, e) == IF BagIn(e, s) THEN s ELSE s (+) SetToBag({e})

\* The row filter without the scene-name test.
IsSecondaryIgnoringName(row, reference, rt, maxtb) ==
    /\ row.temporalBaseline - rt <= maxtb
    /\ row.temporalBaseline - rt > 0

\* The row filter without the lower bound.
IsSecondaryWithoutLowerBound(row, reference, rt, maxtb) ==
    /\ row.sceneName # reference
    /\ row.temporalBaseline - rt <= maxtb

\* The row filter with a strict upper bound.
IsSecondaryStrictUpper(row, reference, rt, maxtb) ==
    /\ row.sceneName # reference
    /\ row.temporalBaseline - rt < maxtb
    /\ row.temporalBaseline - rt > 0

\* The row filter with a closed lower bound.
IsSecondaryClosedLower(row, reference, rt, maxtb) ==
    /\ row.sceneName # reference
    /\ row.temporalBaseline - rt <= maxtb
    /\ row.temporalBaseline - rt >= 0

\* The boolean mask of stack.loc[...]: the rows that pair with reference.
IsSecondary(row, reference, rt, maxtb) ==
    /\ row.sceneName # reference
    /\ row.temporalBaseline - rt <= maxtb
    /\ row.temporalBaseline - rt > 0

\* secondaries.sceneName: names of the selected rows, in table order.
Secondaries(table, reference, rt, maxtb) ==
    LET keep(row) == IsSecondary(row, reference, rt, maxtb)
        sel == SelectSeq(table, keep)
    IN  [k \in 1..Len(sel) |-> sel[k].sceneName]

\* The inner loop: sbas_pairs.add((reference, secondary)) for each secondary.
RECURSIVE AddPairs(_, _, _)
AddPairs(pairs, reference, secs) ==
    IF secs = <<>> THEN pairs
    ELSE AddPairs(SetAdd(pairs, <<reference, Head(secs)>>), reference, Tail(secs))

\* sbas_pairs = set()
SbasStart ==
    /\ sbas_pc = "start"
    /\ sbas_pairs' = EmptyBag
    /\ ref_i' = Len(stack)
    /\ sbas_pc' = "loop"
    /\ UNCHANGED <<baseline_results, stack, max_temporal_baseline>>
    /\ UNCHANGED <<pngVars, nbVars, tsVars, mintpyVars>>

\* One iteration of the outer loop over stack.loc[::-1]: rows last to first.
SbasIterate ==
    /\ sbas_pc = "loop"
    /\ ref_i > 0
    /\ LET reference == stack[ref_i].sceneName
           rt == stack[ref_i].temporalBaseline
       IN  sbas_pairs' = AddPairs(sbas_pairs, reference,
                            Secondaries(stack, reference, rt, max_temporal_baseline))
    /\ ref_i' = ref_i - 1
    /\ UNCHANGED <<baseline_results, stack, max_temporal_baseline, sbas_pc>>
    /\ UNCHANGED <<pngVars, nbVars, tsVars, mintpyVars>>

\* The rows are exhausted: the cell ends.
SbasEnd ==
    /\ sbas_pc = "loop"
    /\ ref_i = 0
    /\ sbas_pc' = "done"
    /\ UNCHANGED <<baseline_results, stack, max_temporal_baseline, sbas_pairs, ref_i>>
    /\ UNCHANGED <<pngVars, nbVars, tsVars, mintpyVars>>

\* The process-new-granules notebook is not running.
PngIdle ==
    /\ available = {}
    /\ hyp3_jobs = <<>>
    /\ run = 0
    /\ pc = "off"
    /\ batch_size = 0
    /\ processed_granules = <<>>
    /\ search_results = <<>>
    /\ search_incomplete = FALSE
    /\ unprocessed_granules = <<>>
    /\ batch_i = 0
    /\ submit_calls = 0
    /\ submit_log = <<>>
    /\ raised = "none"

\* get_neighbors is not called on its own.
NbIdle ==
    /\ nb_stack = <<>>
    /\ nb_depth = 0
    /\ nb_result = <<>>
    /\ nb_pc = "off"

\* The overlap, clip and config cells are not running.
MintpyIdle ==
    /\ corners = <<>>
    /\ overlap = <<>>
    /\ ov_pc = "off"
    /\ data_files = {}
    /\ written = {}
    /\ translate_calls = <<>>
    /\ ext_i = 0
    /\ clip_pc = "off"
    /\ mintpy_config = <<>>

\* The submit, watch, find_jobs and download cells are not running.
TsCellsIdle ==
    /\ today = 0
    /\ start_of_today = 0
    /\ ts_service = <<>>
    /\ ts_run = 0
    /\ ts_pc = "off"
    /\ ts_todo = {}
    /\ jobs = <<>>
    /\ downloaded = <<>>

\* No time-series notebook is open.
TsIdle ==
    /\ notebook = "none"
    /\ TsCellsIdle

\* The pairing cell is not running.
SbasIdle ==
    /\ baseline_results = <<>>
    /\ stack = <<>>
    /\ max_temporal_baseline = 0
    /\ sbas_pairs = EmptyBag
    /\ sbas_pc = "off"
    /\ ref_i = 0

SbasInit ==
    /\ baseline_results = <<>>
    /\ stack \in Stacks
    /\ max_temporal_baseline \in MaxTemporalBaselines
    /\ sbas_pairs = EmptyBag
    /\ sbas_pc = "start"
    /\ ref_i = 0
    /\ PngIdle
    /\ NbIdle
    /\ TsIdle
    /\ MintpyIdle

SbasNext == SbasStart \/ SbasIterate \/ SbasEnd

SpecSbas == SbasInit /\ [][SbasNext]_vars

----------------------------------------------------------------------------
(* Properties of the SBAS pairing loop *)

\* The elements of the Python set.
Pairs == BagToSet(sbas_pairs)

\* Two rows of the table that qualify as (reference, secondary).
Qualifies(r, s) ==
    /\ r.sceneName # s.sceneName
    /\ 0 < s.temporalBaseline - r.temporalBaseline
    /\ s.temporalBaseline - r.temporalBaseline <= max_temporal_baseline

QualifyingNamePairs ==
    {<<x[1].sceneName, x[2].sceneName>> :
        x \in {y \in Range(stack) \X Range(stack) : Qualifies(y[1], y[2])}}

\* C1: every pair of sbas_pairs comes from a reference row and a secondary
\* row of the table whose temporal baselines satisfy
\* 0 < secondary - reference <= max_temporal_baseline (a scene name names its
\* row; when several rows bear the name, one of them is the row meant).
C1_PairsWithinBaseline ==
    \A p \in Pairs :
        \E r, s \in Range(stack) :
            /\ r.sceneName = p[1]
            /\ s.sceneName = p[2]
            /\ 0 < s.temporalBaseline - r.temporalBaseline
            /\ s.temporalBaseline - r.temporalBaseline <= max_temporal_baseline

\* The loop has ended with a pair whose baseline difference is exactly the maximum.
C1_Witness ==
    /\ sbas_pc = "done"
    /\ \E r, s \in Range(stack) :
            /\ <<r.sceneName, s.sceneName>> \in Pairs
            /\ s.temporalBaseline - r.temporalBaseline = max_temporal_baseline

\* C2: when the loop has ended, every two rows with different scene names and
\* 0 < secondary - reference <= max_temporal_baseline are paired in sbas_pairs.
C2_PairingComplete ==
    sbas_pc = "done" =>
        \A r, s \in Range(stack) :
            Qualifies(r, s) => <<r.sceneName, s.sceneName>> \in Pairs

\* The loop has ended on a table of three rows of which the first is a
\* reference (visited last) and whose pairs include one at the maximum.
C2_Witness ==
    /\ sbas_pc = "done"
    /\ Len(stack) >= MaxRows
    /\ \E s \in Range(stack) : Qualifies(stack[1], s)
    /\ \E r, s \in Range(stack) :
            /\ Qualifies(r, s)
            /\ s.temporalBaseline - r.temporalBaseline = max_temporal_baseline

\* C3: for A:0, B:10, C:20, D:50 and max_temporal_baseline = 24 the loop
\* produces exactly {(A,B), (A,C), (B,C)}.
C3_Scenario ==
    (sbas_pc = "done" /\ stack = ScenarioStack /\ max_temporal_baseline = ScenarioMax)
        => Pairs = {<<"A", "B">>, <<"A", "C">>, <<"B", "C">>}

\* The loop has ended on the scenario's table.
C3_Witness ==
    /\ sbas_pc = "done"
    /\ stack = ScenarioStack
    /\ max_temporal_baseline = ScenarioMax
    /\ <<"A", "D">> \notin Pairs

\* C4: in every pair of sbas_pairs the reference name differs from the
\* secondary name, whatever rows the table holds.
C4_ReferenceDiffersFromSecondary == \A p \in Pairs : p[1] # p[2]

\* The loop has ended on a table with two rows of one scene name whose
\* baselines differ by an amount within (0, max_temporal_baseline].
C4_Witness ==
    /\ sbas_pc = "done"
    /\ Pairs # {}
    /\ \E i, j \in 1..Len(stack) :
            /\ stack[i].sceneName = stack[j].sceneName
            /\ 0 < stack[j].temporalBaseline - stack[i].temporalBaseline
            /\ stack[j].temporalBaseline - stack[i].temporalBaseline
                    <= max_temporal_baseline

\* C5: sbas_pairs holds each pair once, and when the loop has ended it has as
\* many elements as there are distinct qualifying (reference, secondary) names.
C5_NoDuplicatePairs ==
    /\ \A p \in Pairs : CopiesIn(p, sbas_pairs) = 1
    /\ sbas_pc = "done" => BagCardinality(sbas_pairs) = Cardinality(QualifyingNamePairs)

\* The loop has ended on a table holding a row twice, the repeated row being
\* a secondary: its pair was added twice.
C5_Witness ==
    /\ sbas_pc = "done"
    /\ \E i, j, k \in 1..Len(stack) :
            /\ i # j
            /\ stack[i] = stack[j]
            /\ Qualifies(stack[k], stack[i])

----------------------------------------------------------------------------
(* The stack filter followed by the SBAS pairing loop *)

\* stack_start and stack_end as day numbers on the calendar of the model.
stack_start == 10

stack_end == 20

\* The days a scene of the baseline stack may start on: before the window, on
\* its first day, on its last day, after it.
StartDays == {stack_start - 10, stack_start, stack_end, stack_end + 10}

\* A scene of the baseline stack; its temporal baseline is counted in days
\* from the reference scene of the stack, which starts on day 0.
BaselineRow(n, day) == [sceneName |-> n, temporalBaseline |-> day, startTime |-> day]

\* The baseline stacks: every scene is listed once.
BaselineStacks ==
    {st \in SeqsUpTo({BaselineRow(n, day) : n \in SceneNames, day \in StartDays}, MaxRows) :
        \A i, j \in 1..Len(st) : i # j => st[i].sceneName # st[j].sceneName}

\* The row mask of the filter without its upper bound.
InWindowWithoutEnd(row) == stack_start <= row.startTime

\* (stack_start <= stack.startTime) & (stack.startTime <= stack_end)
InWindow(row) == stack_start <= row.startTime /\ row.startTime <= stack_end

\* stack = stack.loc[...]: the rows of the baseline stack inside the window.
FilterStack ==
    /\ sbas_pc = "filter"
    /\ stack' = SelectSeq(baseline_results, InWindow)
    /\ sbas_pc' = "start"
    /\ UNCHANGED <<baseline_results, max_temporal_baseline, sbas_pairs, ref_i>>
    /\ UNCHANGED <<pngVars, nbVars, tsVars, mintpyVars>>

StackInit ==
    /\ baseline_results \in BaselineStacks
    /\ stack = baseline_results
    /\ max_temporal_baseline \in MaxTemporalBaselines
    /\ sbas_pairs = EmptyBag
    /\ sbas_pc = "filter"
    /\ ref_i = 0
    /\ PngIdle
    /\ NbIdle
    /\ TsIdle
    /\ MintpyIdle

StackNext == FilterStack \/ SbasStart \/ SbasIterate \/ SbasEnd

SpecStack == StackInit /\ [][StackNext]_vars

\* C16: every scene named in a pair of sbas_pairs, as reference or as
\* secondary, has stack_start <= startTime <= stack_end; a scene of the
\* baseline stack outside the window is in no pair.
C16_PairsInsideWindow ==
    \A p \in Pairs :
        \A row \in Range(baseline_results) :
            row.sceneName \in {p[1], p[2]}
                => /\ stack_start <= row.startTime
                   /\ row.startTime <= stack_end

\* The loop is over with a pair whose reference starts on stack_start and
\* whose secondary starts on stack_end, while the baseline stack holds a later
\* scene that is close enough to the secondary to pair with it.
C16_Witness ==
    /\ sbas_pc = "done"
    /\ \E r, s, late \in Range(baseline_results) :
            /\ <<r.sceneName, s.sceneName>> \in Pairs
            /\ r.startTime = stack_start
            /\ s.startTime = stack_end
            /\ late.startTime > stack_end
            /\ late.temporalBaseline - s.temporalBaseline <= max_temporal_baseline

----------------------------------------------------------------------------
(* Process-new-granules notebook *)

\* Bounds: scenes of the archive, runs of the notebook.
MaxScenes == 4

MaxRuns == 2

\* Scenes in acquisition order; a scene's number is its acquisition day.
Scenes == 1..MaxScenes

\* properties['sceneName'] as a sequence of characters closed by the scene's
\* number; every third scene (2, 5, ...) is of another platform.
SceneNameOf(g) ==
    IF g % 3 = 2 THEN <<"A", "L", "O", g>> ELSE <<"S", "1", "A", g>>

\* search_parameters['platform']
Platform == <<"S", "1">>

\* job_specification
job_specification ==
    [job_parameters |-> <<>>, job_type |-> "INSAR_GAMMA", name |-> "Project Name"]

\* A job of the same user submitted under another name.
OtherProjectJob ==
    [job_parameters |-> ("granules" :> <<SceneNameOf(3), SceneNameOf(1)>>),
     job_type |-> "INSAR_GAMMA", name |-> "Other Project", request_run |-> 0]

\* batch_size as written in the notebook.
DefaultBatchSize == 10

BatchSizes == {1, 2, DefaultBatchSize}

\* depth=2, the default of get_neighbors.
DefaultDepth == 2

\* str.startswith
StartsWith(str, prefix) ==
    /\ Len(prefix) <= Len(str)
    /\ SubSeq(str, 1, Len(prefix)) = prefix

\* Python s[start:] for a list s and an integer start.
PySliceFrom(s, start) ==
    LET from == IF start < 0 THEN Max(Len(s) + start, 0) ELSE Min(start, Len(s))
    IN  SubSeq(s, from + 1, Len(s))

\* Python s[lo:hi] for a list s and 0 <= lo <= hi.
PySlice(s, lo, hi) == SubSeq(s, Min(lo, Len(s)) + 1, Min(hi, Len(s)))

\* The scenes of a set, earliest first.
RECURSIVE Ascending(_)
Ascending(S) ==
    IF S = {} THEN <<>>
    ELSE LET m == CHOOSE x \in S : \A y \in S : x <= y
         IN  <<m>> \o Ascending(S \ {m})

\* asf_search.baseline_search.stack_from_product: the scenes the archive
\* holds, earliest first, with their temporal baseline to the granule.
StackFromProduct(granule, archive) ==
    LET scenes == Ascending(archive \cup {granule})
    IN  [k \in 1..Len(scenes) |->
            [sceneName |-> SceneNameOf(scenes[k]),
             temporalBaseline |-> scenes[k] - granule]]

\* get_neighbors after stack.raise_if_incomplete() has passed.
GetNeighbors(stack_items, platform, depth) ==
    LET keep(item) == /\ item.temporalBaseline < 0
                      /\ StartsWith(item.sceneName, platform)
        kept == SelectSeq(stack_items, keep)
        last == PySliceFrom(kept, -depth)
    IN  [k \in 1..Len(last) |-> last[k].sceneName]

\* The dicts of the notebook.  A heap is the sequence of the nested
\* job_parameters dicts; a job dict holds the address of its job_parameters.
\* The heap before any job is built holds the dict of job_specification only.
InitialHeap == <<job_specification.job_parameters>>

\* job_specification as an object: its job_parameters is the first dict.
SpecificationObject == [job_specification EXCEPT !.job_parameters = Len(InitialHeap)]

\* A copy of the outer dict only: the nested dict stays shared.
ShallowCopy(heap, obj) == [heap |-> heap, obj |-> obj]

\* deepcopy: a new outer dict with a new nested dict of the same content.
DeepCopy(heap, obj) ==
    [heap |-> Append(heap, heap[obj.job_parameters]),
     obj |-> [obj EXCEPT !.job_parameters = Len(heap) + 1]]

\* The job dict as the service receives it: its nested dict read from the heap.
Dereference(heap, obj) == [obj EXCEPT !.job_parameters = heap[@]]

\* The loop of get_jobs_for_granule from neighbor k on: the heap after the
\* loop and the job objects appended.
RECURSIVE JobsForNeighbors(_, _, _, _)
JobsForNeighbors(heap, name, neighbors, k) ==
    IF k > Len(neighbors) THEN [heap |-> heap, refs |-> <<>>]
    ELSE LET job == DeepCopy(heap, SpecificationObject)
             assigned == [job.heap EXCEPT ![job.obj.job_parameters] =
                              ("granules" :> <<name, neighbors[k]>>) @@ @]
             rest == JobsForNeighbors(assigned, name, neighbors, k + 1)
         IN  [heap |-> rest.heap, refs |-> <<job.obj>> \o rest.refs]

\* get_jobs_for_granule on a given heap.
JobObjectsForGranule(heap, granule, archive) ==
    JobsForNeighbors(heap, SceneNameOf(granule),
                     GetNeighbors(StackFromProduct(granule, archive), Platform,
                                  DefaultDepth), 1)

\* The list comprehension of the batch loop on a given heap.
RECURSIVE JobObjects(_, _, _)
JobObjects(heap, granules, archive) ==
    IF granules = <<>> THEN [heap |-> heap, refs |-> <<>>]
    ELSE LET first == JobObjectsForGranule(heap, Head(granules), archive)
             rest == JobObjects(first.heap, Tail(granules), archive)
         IN  [heap |-> rest.heap, refs |-> first.refs \o rest.refs]

\* The content of the job objects once all of them are built.
Built(result) ==
    [k \in 1..Len(result.refs) |-> Dereference(result.heap, result.refs[k])]

\* get_jobs_for_granule, called on its own.
GetJobsForGranule(granule, archive) ==
    Built(JobObjectsForGranule(InitialHeap, granule, archive))

\* hyp3.find_jobs(name=..., job_type=...)
FindJobsIgnoringName(job_list, name, job_type) ==
    LET match(job) == job.job_type = job_type
    IN  SelectSeq(job_list, match)

FindJobs(job_list, name, job_type) ==
    LET match(job) == job.name = name /\ job.job_type = job_type
    IN  SelectSeq(job_list, match)

\* processed_granules
ProcessedGranules(previous_jobs) ==
    [k \in 1..Len(previous_jobs) |-> previous_jobs[k].job_parameters["granules"][1]]

\* unprocessed_granules built without looking at processed_granules.
UnprocessedGranulesKeepingAll(results, processed) == results

\* unprocessed_granules
UnprocessedGranules(results, processed) ==
    LET fresh(result) == SceneNameOf(result) \notin Range(processed)
    IN  SelectSeq(results, fresh)

\* search_results.raise_if_incomplete() that never raises.
RaiseIfIncompleteNever(incomplete) == FALSE

\* search_results.raise_if_incomplete(): raises exactly when incomplete.
RaiseIfIncomplete(incomplete) == incomplete

\* A search response: distinct scenes of the archive, latest first.
SearchResponses ==
    LET asc(S) == Ascending(S)
    IN  {[k \in 1..Len(asc(S)) |-> asc(S)[Len(asc(S)) + 1 - k]] : S \in SUBSET available}

\* The slice of a batch, one granule short.
BatchSliceShort(granules, i, size) == PySlice(granules, i, i + size - 1)

\* unprocessed_granules[i:i+batch_size]
BatchSlice(granules, i, size) == PySlice(granules, i, i + size)

\* new_jobs of one batch as submit_prepared_jobs reads it: the jobs of its
\* granules, in order.  job_specification is the same at every batch, as the
\* deepcopy leaves it alone.
NewJobs(granules, archive) == Built(JobObjects(InitialHeap, granules, archive))

\* The jobs of the granules before the failing one, submitted as they are built.
SubmittedBeforeRaiseEagerly(batch, bad, archive) ==
    NewJobs(SubSeq(batch, 1, bad - 1), archive)

\* The jobs of a batch that reach the service when get_neighbors raises for
\* its granule number bad: none, new_jobs is built whole before the submit.
SubmittedBeforeRaise(batch, bad, archive) == <<>>

\* The service's record of a submitted job: the prepared job and its request.
Submitted(job_list, r) ==
    [k \in 1..Len(job_list) |->
        [job_parameters |-> job_list[k].job_parameters, job_type |-> job_list[k].job_type,
         name |-> job_list[k].name, request_run |-> r]]

\* The cell that builds unprocessed_granules.
FindUnprocessed ==
    /\ pc = "idle"
    /\ \E results \in SearchResponses, incomplete \in BOOLEAN :
          LET previous_jobs == FindJobs(hyp3_jobs, job_specification.name,
                                        job_specification.job_type)
              processed == ProcessedGranules(previous_jobs)
          IN  /\ processed_granules' = processed
              /\ search_results' = results
              /\ search_incomplete' = incomplete
              /\ IF RaiseIfIncomplete(incomplete)
                 THEN /\ pc' = "failed"
                      /\ raised' = "search"
                      /\ UNCHANGED unprocessed_granules
                 ELSE /\ pc' = "ready"
                      /\ raised' = "none"
                      /\ unprocessed_granules' = UnprocessedGranules(results, processed)
    /\ batch_i' = 0
    /\ UNCHANGED <<available, hyp3_jobs, run, batch_size, submit_calls, submit_log>>
    /\ UNCHANGED <<sbasVars, nbVars, tsVars, mintpyVars>>

\* One iteration of the batch loop: build new_jobs, submit them.
BatchIteration ==
    /\ pc = "ready"
    /\ batch_i < Len(unprocessed_granules)
    /\ LET batch == BatchSlice(unprocessed_granules, batch_i, batch_size)
           new_jobs == NewJobs(batch, available)
           call == [granules |-> batch, new_jobs |-> new_jobs]
       IN  \/ \* every stack is complete and the service accepts the jobs
               /\ hyp3_jobs' = hyp3_jobs \o Submitted(new_jobs, run)
               /\ submit_calls' = submit_calls + 1
               /\ submit_log' = Append(submit_log, call)
               /\ batch_i' = batch_i + batch_size
               /\ UNCHANGED <<pc, raised>>
           \/ \* stack.raise_if_incomplete() raises for a granule of the batch
               /\ \E bad \in 1..Len(batch) :
                     hyp3_jobs' = hyp3_jobs \o
                        Submitted(SubmittedBeforeRaise(batch, bad, available), run)
               /\ pc' = "failed"
               /\ raised' = "stack"
               /\ UNCHANGED <<submit_calls, submit_log, batch_i>>
           \/ \* submit_prepared_jobs raises
               /\ pc' = "failed"
               /\ raised' = "submit"
               /\ submit_calls' = submit_calls + 1
               /\ submit_log' = Append(submit_log, call)
               /\ UNCHANGED <<hyp3_jobs, batch_i>>
    /\ UNCHANGED <<available, run, batch_size, processed_granules, search_results,
                   search_incomplete, unprocessed_granules>>
    /\ UNCHANGED <<sbasVars, nbVars, tsVars, mintpyVars>>

\* The batch loop is over: print('Done.')
RunDone ==
    /\ pc = "ready"
    /\ batch_i >= Len(unprocessed_granules)
    /\ pc' = "done"
    /\ UNCHANGED <<available, hyp3_jobs, run, batch_size, processed_granules,
                   search_results, search_incomplete, unprocessed_granules, batch_i,
                   submit_calls, submit_log, raised>>
    /\ UNCHANGED <<sbasVars, nbVars, tsVars, mintpyVars>>

\* The user runs the notebook again.
RunAgain ==
    /\ pc \in {"done", "failed"}
    /\ run < MaxRuns
    /\ pc' = "idle"
    /\ run' = run + 1
    /\ search_incomplete' = FALSE
    /\ submit_calls' = 0
    /\ submit_log' = <<>>
    /\ raised' = "none"
    /\ UNCHANGED <<available, hyp3_jobs, batch_size, processed_granules,
                   search_results, unprocessed_granules, batch_i>>
    /\ UNCHANGED <<sbasVars, nbVars, tsVars, mintpyVars>>

\* Before a run starts a scene becomes available in the archive.
ArchiveGrows ==
    /\ pc = "idle"
    /\ \E scene \in Scenes \ available : available' = available \cup {scene}
    /\ UNCHANGED <<hyp3_jobs, run, pc, batch_size, processed_granules, search_results,
                   search_incomplete, unprocessed_granules, batch_i, submit_calls,
                   submit_log, raised>>
    /\ UNCHANGED <<sbasVars, nbVars, tsVars, mintpyVars>>

PngInit ==
    /\ available \in SUBSET Scenes
    /\ hyp3_jobs \in {<<>>, <<OtherProjectJob>>}
    /\ run = 1
    /\ pc = "idle"
    /\ batch_size \in BatchSizes
    /\ processed_granules = <<>>
    /\ search_results = <<>>
    /\ search_incomplete = FALSE
    /\ unprocessed_granules = <<>>
    /\ batch_i = 0
    /\ submit_calls = 0
    /\ submit_log = <<>>
    /\ raised = "none"
    /\ SbasIdle
    /\ NbIdle
    /\ TsIdle
    /\ MintpyIdle

PngNext == FindUnprocessed \/ BatchIteration \/ RunDone \/ RunAgain \/ ArchiveGrows

SpecPng == PngInit /\ [][PngNext]_vars

----------------------------------------------------------------------------
(* Properties of the process-new-granules notebook *)

\* The positions in hyp3_jobs of the jobs of this project.
ProjectJobs ==
    {k \in 1..Len(hyp3_jobs) :
        /\ hyp3_jobs[k].name = job_specification.name
        /\ hyp3_jobs[k].job_type = job_specification.job_type}

GranulesOf(k) == hyp3_jobs[k].job_parameters["granules"]

\* C6: over the runs of the notebook no [granule, neighbor] job is submitted
\* twice, and all jobs whose first granule is a given granule were submitted in
\* one run: a granule of a job found by find_jobs never gets new jobs.
C6_NoGranuleProcessedTwice ==
    \A a, b \in ProjectJobs :
        /\ a # b => GranulesOf(a) # GranulesOf(b)
        /\ GranulesOf(a)[1] = GranulesOf(b)[1]
                => hyp3_jobs[a].request_run = hyp3_jobs[b].request_run

\* The last run has submitted jobs for a new granule while its search results
\* held a granule processed in the first run.
C6_Witness ==
    /\ pc = "done"
    /\ run = MaxRuns
    /\ \E a, b \in ProjectJobs :
            /\ hyp3_jobs[a].request_run = 1
            /\ hyp3_jobs[b].request_run = run
            /\ \E g \in Range(search_results) : SceneNameOf(g) = GranulesOf(a)[1]
    /\ \E g \in Range(search_results) :
            /\ GetJobsForGranule(g, available) # <<>>
            /\ \A a \in ProjectJobs : GranulesOf(a)[1] = SceneNameOf(g)
                                        => hyp3_jobs[a].request_run = 1

\* The granule had no job of this project before the current run.
NotYetProcessed(g) ==
    \A k \in ProjectJobs :
        GranulesOf(k)[1] = SceneNameOf(g) => hyp3_jobs[k].request_run = run

\* The archive holds an earlier scene of the platform.
HasEligibleNeighbor(g) == \E s \in available : s < g /\ s % 3 # 2

\* The service holds the job as submitted in the current run.
SubmittedThisRun(job) ==
    \E k \in 1..Len(hyp3_jobs) : hyp3_jobs[k] = Submitted(<<job>>, run)[1]

\* C7: when a run ends without an exception, every granule of the search
\* results that was not processed before and has an eligible neighbor has its
\* jobs submitted in this run; and a second run on the same search results and
\* archive would find no unprocessed granule with a job to submit.
C7_RunProcessesEveryNewGranule ==
    pc = "done" =>
        /\ \A g \in Range(search_results) :
              (NotYetProcessed(g) /\ HasEligibleNeighbor(g)) =>
                  /\ GetJobsForGranule(g, available) # <<>>
                  /\ \A job \in Range(GetJobsForGranule(g, available)) :
                        SubmittedThisRun(job)
        /\ LET previous_jobs == FindJobs(hyp3_jobs, job_specification.name,
                                         job_specification.job_type)
               again == UnprocessedGranules(search_results,
                                            ProcessedGranules(previous_jobs))
           IN  NewJobs(again, available) = <<>>

\* A run has ended after several batches that submitted jobs for two new
\* granules, while another project's job names one of its granules.
C7_Witness ==
    /\ pc = "done"
    /\ submit_calls >= 2
    /\ Len(hyp3_jobs) > 0 /\ hyp3_jobs[1] = OtherProjectJob
    /\ \E g, h \in Range(unprocessed_granules) :
            /\ g # h
            /\ SceneNameOf(g) = OtherProjectJob.job_parameters["granules"][1]
            /\ GetJobsForGranule(g, available) # <<>>
            /\ GetJobsForGranule(h, available) # <<>>

\* C8: when the search response is incomplete the run fails in
\* raise_if_incomplete and submits nothing: no call of submit_prepared_jobs and
\* no job of this run.
C8_IncompleteSearchSubmitsNothing ==
    search_incomplete =>
        /\ pc = "failed"
        /\ raised = "search"
        /\ submit_calls = 0
        /\ \A k \in 1..Len(hyp3_jobs) : hyp3_jobs[k].request_run # run

\* A later run has failed on an incomplete search response that held a new
\* granule with an eligible neighbor.
C8_Witness ==
    /\ search_incomplete
    /\ pc = "failed"
    /\ run > 1
    /\ ProjectJobs # {}
    /\ \E g \in Range(search_results) :
            /\ NotYetProcessed(g)
            /\ GetJobsForGranule(g, available) # <<>>

\* The number of slices of length size that cover n granules.
CeilDiv(n, size) == (n + size - 1) \div size

\* The k-th of the consecutive slices of length size, the last possibly shorter.
ConsecutiveSlice(granules, k, size) ==
    SubSeq(granules, (k - 1) * size + 1,
           IF k * size < Len(granules) THEN k * size ELSE Len(granules))

\* The calls of submit_prepared_jobs of this run whose batch holds the granule.
CallsHolding(g) ==
    {k \in 1..Len(submit_log) : g \in Range(submit_log[k].granules)}

\* C11: a run that ends without an exception has made one call of
\* submit_prepared_jobs per consecutive slice of batch_size unprocessed
\* granules: ceil(n / batch_size) calls for n granules (none for n = 0), the
\* k-th call for the k-th slice, and every unprocessed granule has its jobs in
\* exactly one call.
C11_OneSubmitCallPerBatch ==
    pc = "done" =>
        LET n == Len(unprocessed_granules)
        IN  /\ submit_calls = CeilDiv(n, batch_size)
            /\ n = 0 => submit_calls = 0
            /\ Len(submit_log) = submit_calls
            /\ \A k \in 1..Len(submit_log) :
                  submit_log[k].granules =
                      ConsecutiveSlice(unprocessed_granules, k, batch_size)
            /\ \A g \in Range(unprocessed_granules) :
                  /\ Cardinality(CallsHolding(g)) = 1
                  /\ \A k \in 1..Len(submit_log) :
                        (\E job \in Range(submit_log[k].new_jobs) :
                             job.job_parameters["granules"][1] = SceneNameOf(g))
                            <=> (k \in CallsHolding(g)
                                    /\ GetJobsForGranule(g, available) # <<>>)
                  /\ \A k \in CallsHolding(g) :
                        Range(GetJobsForGranule(g, available))
                            \subseteq Range(submit_log[k].new_jobs)

\* A run has ended after two calls for three unprocessed granules with
\* batch_size 2: a full slice and a shorter last one, both with jobs.
C11_Witness ==
    /\ pc = "done"
    /\ batch_size = 2
    /\ Len(unprocessed_granules) = 3
    /\ Len(submit_log) = 2
    /\ Len(submit_log[1].granules) = 2
    /\ Len(submit_log[2].granules) = 1
    /\ submit_log[1].new_jobs # <<>>
    /\ submit_log[2].new_jobs # <<>>

\* The batch the loop was working on when the run stopped.
CurrentBatch ==
    ConsecutiveSlice(unprocessed_granules, batch_i \div batch_size + 1, batch_size)

\* The first granules of the jobs submitted in the current run.
GranulesSubmittedThisRun ==
    {GranulesOf(k)[1] : k \in {j \in ProjectJobs : hyp3_jobs[j].request_run = run}}

\* C18: when get_neighbors raises for a granule of a batch the run stops with
\* no job of that batch submitted (neither of the failing granule nor of the
\* granules before it in the batch); the jobs of the earlier batches stay
\* submitted, and no later batch is processed.
C18_IncompleteStackSubmitsNoJobOfBatch ==
    raised = "stack" =>
        /\ pc = "failed"
        /\ \A g \in Range(CurrentBatch) :
              SceneNameOf(g) \notin GranulesSubmittedThisRun
        /\ Len(submit_log) = batch_i \div batch_size
        /\ submit_calls = Len(submit_log)
        /\ \A k \in 1..Len(submit_log) :
              \A job \in Range(submit_log[k].new_jobs) : SubmittedThisRun(job)
        /\ \A p \in (batch_i + 1)..Len(unprocessed_granules) :
              SceneNameOf(unprocessed_granules[p]) \notin GranulesSubmittedThisRun

\* The run stopped in its second batch, after the jobs of the first batch were
\* submitted; the failing batch holds a granule with jobs to submit.
C18_Witness ==
    /\ raised = "stack"
    /\ Len(submit_log) = 1
    /\ submit_log[1].new_jobs # <<>>
    /\ Len(CurrentBatch) = 2
    /\ GetJobsForGranule(CurrentBatch[1], available) # <<>>

\* The jobs of a call of submit_prepared_jobs whose first granule is g.
JobsOfGranuleIn(call, g) ==
    LET mine(job) == job.job_parameters["granules"][1] = SceneNameOf(g)
    IN  SelectSeq(call.new_jobs, mine)

\* C14: in every batch handed to submit_prepared_jobs, a granule with
\* neighbors n1..nk has exactly k jobs; job i holds [sceneName, ni] as its
\* granules and the job_type and name of job_specification.  The jobs share no
\* state: job i still holds ni when the batch is submitted.
C14_EachJobHoldsItsOwnNeighbor ==
    \A c \in 1..Len(submit_log) :
        \A g \in Range(submit_log[c].granules) :
            LET neighbors == GetNeighbors(StackFromProduct(g, available),
                                          Platform, DefaultDepth)
                mine == JobsOfGranuleIn(submit_log[c], g)
            IN  /\ Len(mine) = Len(neighbors)
                /\ \A i \in 1..Len(mine) :
                      /\ mine[i].job_parameters["granules"]
                            = <<SceneNameOf(g), neighbors[i]>>
                      /\ mine[i].job_type = job_specification.job_type
                      /\ mine[i].name = job_specification.name

\* A batch of two granules was submitted; one of them has two neighbors and
\* so two jobs that differ in the neighbor.
C14_Witness ==
    \E c \in 1..Len(submit_log) :
        /\ Len(submit_log[c].granules) = 2
        /\ \E g \in Range(submit_log[c].granules) :
              LET mine == JobsOfGranuleIn(submit_log[c], g)
              IN  /\ Len(mine) = 2
                  /\ mine[1].job_parameters["granules"][2]
                        # mine[2].job_parameters["granules"][2]
        /\ \E k \in 1..Len(hyp3_jobs) : hyp3_jobs[k].request_run = run

----------------------------------------------------------------------------
(* get_neighbors on arbitrary stacks and depths *)

\* Bounds: items of a stack, depth argument.
MaxStackLen == 3

MaxDepth == 3

NbSceneNames == {SceneNameOf(g) : g \in 1..MaxStackLen}

NbBaselines == {-3, -2, -1, 0, 1}

\* A stack as stack_from_product returns it: distinct scenes, earliest first.
NbStacks ==
    {st \in SeqsUpTo([sceneName : NbSceneNames, temporalBaseline : NbBaselines],
                     MaxStackLen) :
        \A i, j \in 1..Len(st) :
            i < j => /\ st[i].sceneName # st[j].sceneName
                     /\ st[i].temporalBaseline < st[j].temporalBaseline}

\* get_neighbors(granule, platform, depth)
CallGetNeighbors ==
    /\ nb_pc = "call"
    /\ \E incomplete \in BOOLEAN :
          IF RaiseIfIncomplete(incomplete)
          THEN /\ nb_pc' = "raised"
               /\ UNCHANGED nb_result
          ELSE /\ nb_pc' = "returned"
               /\ nb_result' = GetNeighbors(nb_stack, Platform, nb_depth)
    /\ UNCHANGED <<nb_stack, nb_depth>>
    /\ UNCHANGED <<sbasVars, pngVars, tsVars, mintpyVars>>

NbInit ==
    /\ nb_stack \in NbStacks
    /\ nb_depth \in 0..MaxDepth
    /\ nb_result = <<>>
    /\ nb_pc = "call"
    /\ SbasIdle
    /\ PngIdle
    /\ TsIdle
    /\ MintpyIdle

NbNext == CallGetNeighbors

SpecNb == NbInit /\ [][NbNext]_vars

\* The scene names of the stack items get_neighbors may return.
EligibleNames ==
    LET eligible(item) == /\ item.temporalBaseline < 0
                          /\ item.sceneName[1] = "S" /\ item.sceneName[2] = "1"
        kept == SelectSeq(nb_stack, eligible)
    IN  [k \in 1..Len(kept) |-> kept[k].sceneName]

\* C10: get_neighbors returns the last min(depth, k) of the k eligible stack
\* items, for every depth >= 0.
C10_NeighborCount ==
    nb_pc = "returned" =>
        LET k == Len(EligibleNames)
            m == Min(nb_depth, k)
        IN  /\ Len(nb_result) = m
            /\ nb_result = SubSeq(EligibleNames, k - m + 1, k)

\* The same for the depths that are at least 1.
NeighborCountForPositiveDepth == nb_depth >= 1 => C10_NeighborCount

----------------------------------------------------------------------------
(* Time-series notebooks: submit, watch, find_jobs, download_files *)

\* Bounds: elements of sbas_pairs, runs of the notebook, midnights that pass.
MaxPairs == 2

MaxTsRuns == 2

MaxDays == 1

\* The notebooks with these cells: the GAMMA time-series notebook and the
\* burst time-series notebook.  The merge notebook has the cells of the burst
\* notebook with a literal list of pairs.
Notebooks == {"gamma", "burst"}

\* project_name of the GAMMA notebook
project_name == "2019_ridgecrest"

\* project_name of the burst notebook
burst_project_name == "2014_mount_edgecumbe"

\* project_name of the notebook that runs.
ProjectName == IF notebook = "burst" THEN burst_project_name ELSE project_name

\* The sets sbas_pairs the pairing cell may have left.
TsPairSets ==
    {S \in SUBSET {<<"A", "B">>, <<"A", "C">>, <<"B", "C">>} : Cardinality(S) <= MaxPairs}

\* HyP3 status codes of a job that is complete.
CompleteStatus == {"SUCCEEDED", "FAILED"}

\* The status codes a job may move to from a status code.
NextStatus(status) ==
    CASE status = "PENDING" -> {"RUNNING"}
      [] status = "RUNNING" -> CompleteStatus
      [] OTHER -> {}

\* A submit call that passes the pair the other way round.
InsarJobSwapped(reference, secondary, name, r) ==
    [job_parameters |-> ("granules" :> <<secondary, reference>>),
     job_type |-> "INSAR_GAMMA", name |-> name, status_code |-> "PENDING",
     request_run |-> r, request_day |-> today]

\* hyp3.submit_insar_job(reference, secondary, name=project_name, ...): the
\* job as the service records it, with the run and the day of the request.
InsarJob(reference, secondary, name, r) ==
    [job_parameters |-> ("granules" :> <<reference, secondary>>),
     job_type |-> "INSAR_GAMMA", name |-> name, status_code |-> "PENDING",
     request_run |-> r, request_day |-> today]

\* hyp3.submit_insar_isce_burst_job(granule1=reference, granule2=secondary,
\* name=project_name, ...)
InsarIsceBurstJob(granule1, granule2, name, r) ==
    [job_parameters |-> ("granules" :> <<granule1, granule2>>),
     job_type |-> "INSAR_ISCE_BURST", name |-> name, status_code |-> "PENDING",
     request_run |-> r, request_day |-> today]

\* The submit call of the notebook that runs.
SubmitJob(reference, secondary) ==
    IF notebook = "burst"
    THEN InsarIsceBurstJob(reference, secondary, ProjectName, ts_run)
    ELSE InsarJob(reference, secondary, ProjectName, ts_run)

\* The Job objects of the service's jobs at the given positions, as of now.
Refreshed(ids) ==
    [k \in 1..Len(ids) |-> [job_id |-> ids[k],
                            status_code |-> ts_service[ids[k]].status_code]]

\* hyp3.find_jobs(name=project_name)
FindJobsByName(name) ==
    LET match(k) == ts_service[k].name = name
    IN  Refreshed(SelectSeq([k \in 1..Len(ts_service) |-> k], match))

\* now = datetime.now(); start_of_today = datetime(now.year, now.month, now.day)
StartOfToday(now) == now

\* hyp3.find_jobs(name=project_name, start=start_of_today): the jobs of the
\* name requested at or after start.
FindJobsByNameFrom(name, start) ==
    LET match(k) == ts_service[k].name = name /\ ts_service[k].request_day >= start
    IN  Refreshed(SelectSeq([k \in 1..Len(ts_service) |-> k], match))

\* Batch.complete()
BatchComplete(batch) ==
    \A k \in 1..Len(batch) : ts_service[batch[k].job_id].status_code \in CompleteStatus

\* jobs = sdk.Batch()
NewBatch ==
    /\ ts_pc = "start"
    /\ jobs' = <<>>
    /\ ts_todo' = BagToSet(sbas_pairs)
    /\ ts_pc' = "submit"
    /\ UNCHANGED <<notebook, today, start_of_today, ts_service, ts_run, downloaded>>
    /\ UNCHANGED <<sbasVars, pngVars, nbVars, mintpyVars>>

\* One iteration of the submit loop: jobs += hyp3.submit_insar_job(...)
SubmitInsarJob ==
    /\ ts_pc = "submit"
    /\ \E pair \in ts_todo :
          /\ ts_service' = Append(ts_service, SubmitJob(pair[1], pair[2]))
          /\ jobs' = Append(jobs, [job_id |-> Len(ts_service) + 1,
                                   status_code |-> "PENDING"])
          /\ ts_todo' = ts_todo \ {pair}
    /\ UNCHANGED <<notebook, today, start_of_today, ts_run, ts_pc, downloaded>>
    /\ UNCHANGED <<sbasVars, pngVars, nbVars, mintpyVars>>

\* The submit loop is over; the watch cell starts polling.
SubmitLoopEnds ==
    /\ ts_pc = "submit"
    /\ ts_todo = {}
    /\ ts_pc' = "watch"
    /\ UNCHANGED <<notebook, today, start_of_today, ts_service, ts_run, ts_todo, jobs, downloaded>>
    /\ UNCHANGED <<sbasVars, pngVars, nbVars, mintpyVars>>

\* The service moves a job on.
JobProgress ==
    /\ ts_pc # "off"
    /\ \E k \in 1..Len(ts_service) :
          \E status \in NextStatus(ts_service[k].status_code) :
              ts_service' = [ts_service EXCEPT ![k].status_code = status]
    /\ UNCHANGED <<notebook, today, start_of_today, ts_run, ts_pc, ts_todo, jobs, downloaded>>
    /\ UNCHANGED <<sbasVars, pngVars, nbVars, mintpyVars>>

\* jobs = hyp3.watch(jobs): returns the refreshed batch once it is complete.
WatchReturns ==
    /\ ts_pc = "watch"
    /\ BatchComplete(jobs)
    /\ jobs' = Refreshed([k \in 1..Len(jobs) |-> jobs[k].job_id])
    /\ ts_pc' = "find"
    /\ UNCHANGED <<notebook, today, start_of_today, ts_service, ts_run, ts_todo, downloaded>>
    /\ UNCHANGED <<sbasVars, pngVars, nbVars, mintpyVars>>

\* hyp3.watch(jobs) raises on its timeout while a job is not complete.
WatchTimesOut ==
    /\ ts_pc = "watch"
    /\ ~BatchComplete(jobs)
    /\ ts_pc' = "failed"
    /\ UNCHANGED <<notebook, today, start_of_today, ts_service, ts_run, ts_todo, jobs, downloaded>>
    /\ UNCHANGED <<sbasVars, pngVars, nbVars, mintpyVars>>

\* Midnight passes.
Midnight ==
    /\ ts_pc \notin {"off", "downloaded", "failed"}
    /\ today < MaxDays
    /\ today' = today + 1
    /\ UNCHANGED <<notebook, start_of_today, ts_service, ts_run, ts_pc, ts_todo,
                   jobs, downloaded>>
    /\ UNCHANGED <<sbasVars, pngVars, nbVars, mintpyVars>>

\* The find_jobs cell.  GAMMA notebook: jobs = hyp3.find_jobs(name=project_name).
\* Burst notebooks: start_of_today is taken from the clock in this cell, then
\* jobs = hyp3.find_jobs(name=project_name, start=start_of_today).
FindJobsCell ==
    /\ ts_pc = "find"
    /\ IF notebook = "burst"
       THEN /\ start_of_today' = StartOfToday(today)
            /\ jobs' = FindJobsByNameFrom(ProjectName, StartOfToday(today))
       ELSE /\ jobs' = FindJobsByName(ProjectName)
            /\ UNCHANGED start_of_today
    /\ ts_pc' = "download"
    /\ UNCHANGED <<notebook, today, ts_service, ts_run, ts_todo, downloaded>>
    /\ UNCHANGED <<sbasVars, pngVars, nbVars, mintpyVars>>

\* insar_products = jobs.download_files(data_dir)
DownloadFiles ==
    /\ ts_pc = "download"
    /\ downloaded' = Append(downloaded, [run |-> ts_run, batch |-> jobs])
    /\ ts_pc' = "downloaded"
    /\ UNCHANGED <<notebook, today, start_of_today, ts_service, ts_run, ts_todo, jobs>>
    /\ UNCHANGED <<sbasVars, pngVars, nbVars, mintpyVars>>

\* The user runs the notebook again.
TsRunAgain ==
    /\ ts_pc \in {"downloaded", "failed"}
    /\ ts_run < MaxTsRuns
    /\ ts_run' = ts_run + 1
    /\ ts_pc' = "start"
    /\ downloaded' = <<>>
    /\ UNCHANGED <<notebook, today, start_of_today, ts_service, ts_todo, jobs>>
    /\ UNCHANGED <<sbasVars, pngVars, nbVars, mintpyVars>>

TsInit ==
    /\ baseline_results = <<>>
    /\ stack = <<>>
    /\ max_temporal_baseline = ScenarioMax
    /\ sbas_pairs \in {SetToBag(S) : S \in TsPairSets}
    /\ sbas_pc = "done"
    /\ ref_i = 0
    /\ notebook \in Notebooks
    /\ today = 0
    /\ start_of_today = 0
    /\ ts_service = <<>>
    /\ ts_run = 1
    /\ ts_pc = "start"
    /\ ts_todo = {}
    /\ jobs = <<>>
    /\ downloaded = <<>>
    /\ PngIdle
    /\ NbIdle
    /\ MintpyIdle

TsNext ==
    \/ NewBatch
    \/ SubmitInsarJob
    \/ SubmitLoopEnds
    \/ JobProgress
    \/ Midnight
    \/ WatchReturns
    \/ WatchTimesOut
    \/ FindJobsCell
    \/ DownloadFiles
    \/ TsRunAgain

SpecTs == TsInit /\ [][TsNext]_vars

\* C9: every job of a batch download_files was called on had finished
\* processing when the batch was built.
C9_DownloadOnlyFinishedJobs ==
    \A d \in Range(downloaded) :
        \A job \in Range(d.batch) : job.status_code \in CompleteStatus

\* The jobs submitted in the run of a download had all finished processing.
DownloadAfterOwnJobsFinished ==
    \A d \in Range(downloaded) :
        \A job \in Range(d.batch) :
            ts_service[job.job_id].request_run = d.run
                => job.status_code \in CompleteStatus

\* C19: in the burst notebooks every job submitted in the run is in the
\* batch find_jobs(name=project_name, start=start_of_today) returns, and so
\* in the batch download_files is called on, wherever midnight falls.
C19_BurstDownloadsItsOwnJobs ==
    notebook = "burst" =>
        \A d \in Range(downloaded) :
            \A k \in 1..Len(ts_service) :
                ts_service[k].request_run = d.run
                    => \E job \in Range(d.batch) : job.job_id = k

\* Without a midnight between the first submit call and the find_jobs cell
\* the downloaded batch of the burst notebooks holds every job of the run.
BurstDownloadsOwnJobsOfToday ==
    notebook = "burst" =>
        \A d \in Range(downloaded) :
            \A k \in 1..Len(ts_service) :
                (ts_service[k].request_run = d.run
                    /\ ts_service[k].request_day >= start_of_today)
                    => \E job \in Range(d.batch) : job.job_id = k

\* The GAMMA notebook, which passes no start, downloads every job of the run.
GammaDownloadsItsOwnJobs ==
    notebook = "gamma" =>
        \A d \in Range(downloaded) :
            \A k \in 1..Len(ts_service) :
                ts_service[k].request_run = d.run
                    => \E job \in Range(d.batch) : job.job_id = k

----------------------------------------------------------------------------
(* The submit cell on its own *)

\* A job of the same project that an earlier session left in the service.
EarlierJob == [SubmitJob("A", "B") EXCEPT !.request_run = 0,
                                          !.status_code = "SUCCEEDED"]

\* The submit cell starts with any sbas_pairs, in either notebook, with or
\* without a job of an earlier session in the service.
SubmitInit ==
    /\ baseline_results = <<>>
    /\ stack = <<>>
    /\ max_temporal_baseline = ScenarioMax
    /\ sbas_pairs \in {SetToBag(S) : S \in TsPairSets}
    /\ sbas_pc = "done"
    /\ ref_i = 0
    /\ notebook \in Notebooks
    /\ today = 0
    /\ start_of_today = 0
    /\ ts_run = 1
    /\ ts_service \in {<<>>, <<EarlierJob>>}
    /\ ts_pc = "start"
    /\ ts_todo = {}
    /\ jobs = <<>>
    /\ downloaded = <<>>
    /\ PngIdle
    /\ NbIdle
    /\ MintpyIdle

SubmitNext ==
    \/ NewBatch
    \/ SubmitInsarJob
    \/ SubmitLoopEnds

SpecSubmit == SubmitInit /\ [][SubmitNext]_vars

\* The service's record of the k-th job of the notebook's batch.
ServiceJobOf(k) == ts_service[jobs[k].job_id]

\* The jobs the service received in the current run.
RequestedThisRun == {k \in 1..Len(ts_service) : ts_service[k].request_run = ts_run}

\* C15: when the submit loop is over, the batch handed to watch holds exactly
\* one job per element of sbas_pairs, with the element's first granule as
\* reference and its second as secondary, all under project_name; the batch
\* has as many jobs as sbas_pairs has elements, and these are all the jobs the
\* run has submitted.
C15_OneJobPerPair ==
    ts_pc = "watch" =>
        /\ Len(jobs) = Cardinality(Pairs)
        /\ \A p \in Pairs :
              Cardinality({k \in 1..Len(jobs) :
                  ServiceJobOf(k).job_parameters["granules"] = <<p[1], p[2]>>}) = 1
        /\ \A k \in 1..Len(jobs) : ServiceJobOf(k).name = ProjectName
        /\ {jobs[k].job_id : k \in 1..Len(jobs)} = RequestedThisRun

\* The batch handed to watch holds the two jobs of two pairs, while the
\* service also holds a job of an earlier session.
C15_Witness ==
    /\ ts_pc = "watch"
    /\ Cardinality(Pairs) = 2
    /\ Len(jobs) = 2
    /\ Len(ts_service) = 3

----------------------------------------------------------------------------
(* get_common_overlap *)

\* Bounds: rasters in file_list, largest x and largest y of a corner.
MaxRasters == 2

MaxX == 3

MaxY == 2

\* cornerCoordinates of the rasters: x grows to the right, y grows upwards,
\* upper-left x < lower-right x, upper-left y > lower-right y.
Rasters ==
    {c \in [upperLeft : (0..MaxX) \X (0..MaxY), lowerRight : (0..MaxX) \X (0..MaxY)] :
        /\ c.upperLeft[1] < c.lowerRight[1]
        /\ c.upperLeft[2] > c.lowerRight[2]}

\* max(...) and min(...) of a non-empty set of numbers.
MaxOf(S) == CHOOSE x \in S : \A y \in S : y <= x

MinOf(S) == CHOOSE x \in S : \A y \in S : x <= y

\* The box that encloses all the rasters.
GetCommonOverlapEnclosing(corner_list) ==
    <<MinOf({corner_list[k].upperLeft[1] : k \in 1..Len(corner_list)}),
      MaxOf({corner_list[k].upperLeft[2] : k \in 1..Len(corner_list)}),
      MaxOf({corner_list[k].lowerRight[1] : k \in 1..Len(corner_list)}),
      MinOf({corner_list[k].lowerRight[2] : k \in 1..Len(corner_list)})>>

\* get_common_overlap: [ulx, uly, lrx, lry]
GetCommonOverlap(corner_list) ==
    <<MaxOf({corner_list[k].upperLeft[1] : k \in 1..Len(corner_list)}),
      MinOf({corner_list[k].upperLeft[2] : k \in 1..Len(corner_list)}),
      MinOf({corner_list[k].lowerRight[1] : k \in 1..Len(corner_list)}),
      MaxOf({corner_list[k].lowerRight[2] : k \in 1..Len(corner_list)})>>

\* overlap = get_common_overlap(files); max() of no file raises ValueError.
CallGetCommonOverlap ==
    /\ ov_pc = "call"
    /\ IF corners = <<>>
       THEN /\ ov_pc' = "raised"
            /\ UNCHANGED overlap
       ELSE /\ ov_pc' = "returned"
            /\ overlap' = GetCommonOverlap(corners)
    /\ UNCHANGED <<corners, data_files, written, translate_calls, ext_i, clip_pc,
                   mintpy_config>>
    /\ UNCHANGED <<sbasVars, pngVars, nbVars, tsVars>>

OverlapInit ==
    /\ corners \in SeqsUpTo(Rasters, MaxRasters)
    /\ overlap = <<>>
    /\ ov_pc = "call"
    /\ data_files = {}
    /\ written = {}
    /\ translate_calls = <<>>
    /\ ext_i = 0
    /\ clip_pc = "off"
    /\ mintpy_config = <<>>
    /\ SbasIdle
    /\ PngIdle
    /\ NbIdle
    /\ TsIdle

OverlapNext == CallGetCommonOverlap

SpecOverlap == OverlapInit /\ [][OverlapNext]_vars

\* The point lies in the box [ulx, uly, lrx, lry].
InBox(box, x, y) == box[1] <= x /\ x <= box[3] /\ box[4] <= y /\ y <= box[2]

\* The point lies in the bounding box of the raster.
InRaster(c, x, y) ==
    /\ c.upperLeft[1] <= x /\ x <= c.lowerRight[1]
    /\ c.lowerRight[2] <= y /\ y <= c.upperLeft[2]

\* The points with integer coordinates lying in the box of every raster.  The
\* intersection of boxes with integer corners is a box with integer corners
\* or empty, so these points decide it.
HaveCommonPoint ==
    \E x \in 0..MaxX, y \in 0..MaxY : \A c \in Range(corners) : InRaster(c, x, y)

DisjointRastersReached ==
    /\ ov_pc = "returned"
    /\ ~HaveCommonPoint
    /\ overlap[1] > overlap[3]

----------------------------------------------------------------------------
(* clip_hyp3_products_to_common_overlap and the MintPy config *)

\* Bound: files under data_dir when the clip function is called.
MaxFiles == 3

\* A file name is the sequence of its parts: product name, file kind, the
\* "_clipped" marker if any, and the suffix.  A file is its directory below
\* data_dir (a sequence of directory names) and its name.

\* A list without the connected-components and geometry files.
FilesForMintpyShort == <<<<"_water_mask", ".tif">>, <<"_corr", ".tif">>>>

\* files_for_mintpy of the notebook that runs.
FilesForMintpy ==
    IF notebook = "burst"
    THEN <<<<"_water_mask", ".tif">>, <<"_corr", ".tif">>, <<"_conncomp", ".tif">>,
           <<"_unw_phase", ".tif">>, <<"_dem", ".tif">>, <<"_lv_theta", ".tif">>,
           <<"_lv_phi", ".tif">>>>
    ELSE <<<<"_water_mask", ".tif">>, <<"_corr", ".tif">>, <<"_unw_phase", ".tif">>,
           <<"_dem", ".tif">>, <<"_lv_theta", ".tif">>, <<"_lv_phi", ".tif">>>>

\* {data_dir}/*/*<kind>_clipped.tif
Pattern(kind) == [dir |-> <<"*">>, name |-> <<"*", kind, "_clipped", ".tif">>]

\* The mintpy.load.*File lines of the config of the notebook that runs.
MintpyConfig ==
    IF notebook = "burst"
    THEN <<[option |-> "unwFile", pattern |-> Pattern("_unw_phase")],
           [option |-> "corFile", pattern |-> Pattern("_corr")],
           [option |-> "connCompFile", pattern |-> Pattern("_conncomp")],
           [option |-> "demFile", pattern |-> Pattern("_dem")],
           [option |-> "incAngleFile", pattern |-> Pattern("_lv_theta")],
           [option |-> "azAngleFile", pattern |-> Pattern("_lv_phi")],
           [option |-> "waterMaskFile", pattern |-> Pattern("_water_mask")]>>
    ELSE <<[option |-> "unwFile", pattern |-> Pattern("_unw_phase")],
           [option |-> "corFile", pattern |-> Pattern("_corr")],
           [option |-> "demFile", pattern |-> Pattern("_dem")],
           [option |-> "incAngleFile", pattern |-> Pattern("_lv_theta")],
           [option |-> "azAngleFile", pattern |-> Pattern("_lv_phi")],
           [option |-> "waterMaskFile", pattern |-> Pattern("_water_mask")]>>

\* The files data_dir may hold: products of three kinds, clipped or not, as
\* GeoTIFF or as text, in a product directory or a directory below it.
FileKinds == {"_dem", "_conncomp", "_amp"}

FileNames ==
    {<<"S1", kind>> \o marker \o <<suffix>> :
        kind \in FileKinds, marker \in {<<>>, <<"_clipped">>}, suffix \in {".tif", ".txt"}}

Directories == {<<"product">>, <<"product", "aux">>}

Files == [dir : Directories, name : FileNames]

\* The values of overlap the clip function is called with.
ClipOverlaps == {<<0, 2, 3, 0>>, <<1, 2, 2, 1>>}

\* The name ends with the parts of the extension.
EndsWith(name, extension) ==
    /\ Len(name) >= Len(extension)
    /\ SubSeq(name, Len(name) - Len(extension) + 1, Len(name)) = extension

\* data_dir.rglob(f'*{extension}') on the files now on disk.
RGlob(disk, extension) == {file \in disk : EndsWith(file.name, extension)}

\* file.stem and file.suffix
Stem(name) == SubSeq(name, 1, Len(name) - 1)

Suffix(name) == name[Len(name)]

\* A destination that is the source itself.
DstFileInPlace(file) == file

\* dst_file = file.parent / f'{file.stem}_clipped{file.suffix}'
DstFile(file) ==
    [dir |-> file.dir, name |-> Stem(file.name) \o <<"_clipped", Suffix(file.name)>>]

\* The gdal.Translate calls of the inner loop over the files found, in some
\* order of the files.
RECURSIVE TranslateCalls(_, _)
TranslateCalls(found, projWin) ==
    IF found = {} THEN <<>>
    ELSE LET file == CHOOSE f \in found : TRUE
         IN  <<[destName |-> DstFile(file), srcDS |-> file, projWin |-> projWin]>>
                 \o TranslateCalls(found \ {file}, projWin)

\* clip_hyp3_products_to_common_overlap(data_dir, overlap) is called.
ClipCalled ==
    /\ clip_pc = "call"
    /\ ext_i' = 1
    /\ clip_pc' = "clip"
    /\ UNCHANGED <<corners, overlap, ov_pc, data_files, written, translate_calls,
                   mintpy_config>>
    /\ UNCHANGED <<sbasVars, pngVars, nbVars, tsVars>>

\* One iteration of the loop over files_for_mintpy: every file rglob finds on
\* disk is translated to its destination.
ClipExtension ==
    /\ clip_pc = "clip"
    /\ ext_i <= Len(FilesForMintpy)
    /\ LET found == RGlob(data_files \cup written, FilesForMintpy[ext_i])
       IN  /\ translate_calls' = translate_calls \o TranslateCalls(found, overlap)
           /\ written' = written \cup {DstFile(file) : file \in found}
    /\ ext_i' = ext_i + 1
    /\ UNCHANGED <<corners, overlap, ov_pc, data_files, clip_pc, mintpy_config>>
    /\ UNCHANGED <<sbasVars, pngVars, nbVars, tsVars>>

\* The loop is over and the function returns.
ClipReturns ==
    /\ clip_pc = "clip"
    /\ ext_i > Len(FilesForMintpy)
    /\ clip_pc' = "config"
    /\ UNCHANGED <<corners, overlap, ov_pc, data_files, written, translate_calls,
                   ext_i, mintpy_config>>
    /\ UNCHANGED <<sbasVars, pngVars, nbVars, tsVars>>

\* mintpy_config.write_text(...)
WriteConfig ==
    /\ clip_pc = "config"
    /\ mintpy_config' = MintpyConfig
    /\ clip_pc' = "done"
    /\ UNCHANGED <<corners, overlap, ov_pc, data_files, written, translate_calls,
                   ext_i>>
    /\ UNCHANGED <<sbasVars, pngVars, nbVars, tsVars>>

ClipInit ==
    /\ notebook \in Notebooks
    /\ corners = <<>>
    /\ overlap \in ClipOverlaps
    /\ ov_pc = "returned"
    /\ data_files \in SubsetsUpTo(Files, MaxFiles)
    /\ written = {}
    /\ translate_calls = <<>>
    /\ ext_i = 0
    /\ clip_pc = "call"
    /\ mintpy_config = <<>>
    /\ SbasIdle
    /\ PngIdle
    /\ NbIdle
    /\ TsCellsIdle

ClipNext == ClipCalled \/ ClipExtension \/ ClipReturns \/ WriteConfig

SpecClip == ClipInit /\ [][ClipNext]_vars

----------------------------------------------------------------------------
(* Properties of the clip function and of the MintPy config *)

\* The file is one the clip function is meant for.
IsForMintpy(file) ==
    \E e \in 1..Len(FilesForMintpy) : EndsWith(file.name, FilesForMintpy[e])

\* <stem>_clipped<suffix> in the directory of the file.
ClippedPath(file) ==
    [dir |-> file.dir,
     name |-> SubSeq(file.name, 1, Len(file.name) - 1)
                  \o <<"_clipped", file.name[Len(file.name)]>>]

\* The Translate calls that read the file.
CallsReading(file) ==
    {k \in 1..Len(translate_calls) : translate_calls[k].srcDS = file}

\* Every file under data_dir that is meant for MintPy was translated exactly
\* once, with projWin = overlap, to <stem>_clipped<suffix> in its directory,
\* never onto itself; nothing else was read.
EachMintpyFileClippedOnce ==
    /\ \A file \in data_files :
          IsForMintpy(file) =>
              /\ Cardinality(CallsReading(file)) = 1
              /\ \A k \in CallsReading(file) :
                    /\ translate_calls[k].projWin = overlap
                    /\ translate_calls[k].destName = ClippedPath(file)
                    /\ translate_calls[k].destName # file
    /\ \A k \in 1..Len(translate_calls) :
          /\ translate_calls[k].srcDS \in data_files
          /\ IsForMintpy(translate_calls[k].srcDS)

GlobMatch(pattern, file) ==
    /\ Len(file.dir) = Len(pattern.dir)
    /\ EndsWith(file.name, Tail(pattern.name))

\* C17: every mintpy.load.*File pattern of the config is
\* <data_dir>/*/*<s>_clipped.tif for a suffix <s>.tif of files_for_mintpy of
\* the same notebook, and the clip step has written a file matching the
\* pattern for every file with that suffix one directory below data_dir.
C17_ConfigNamesClippedOutputs ==
    clip_pc = "done" =>
        \A c \in 1..Len(mintpy_config) :
            \E e \in 1..Len(FilesForMintpy) :
                LET extension == FilesForMintpy[e]
                IN  /\ Suffix(extension) = ".tif"
                    /\ mintpy_config[c].pattern
                          = [dir |-> <<"*">>,
                             name |-> <<"*">> \o Stem(extension) \o <<"_clipped", ".tif">>]
                    /\ \A file \in data_files :
                          (Len(file.dir) = 1 /\ EndsWith(file.name, extension)) =>
                              \E out \in written :
                                  GlobMatch(mintpy_config[c].pattern, out)

\* The config of the burst notebook is written after the clip step produced
\* the connected-components and the DEM file that the config names.
C17_Witness ==
    /\ clip_pc = "done"
    /\ notebook = "burst"
    /\ \E c, d \in 1..Len(mintpy_config) :
            /\ mintpy_config[c].option = "connCompFile"
            /\ mintpy_config[d].option = "demFile"
            /\ \E out \in written : GlobMatch(mintpy_config[c].pattern, out)
            /\ \E out \in written : GlobMatch(mintpy_config[d].pattern, out)

=============================================================================
